---- MODULE Spec2Model ----
(***************************************************************************)
(* Chat-scope resolution and event filtering of telethon/events/common.py: *)
(* _into_id_set, EventBuilder.resolve / EventBuilder.filter, and           *)
(* EventCommon._set_client.                                                *)
(*                                                                         *)
(* Execution model: one asyncio event loop.  The code between two awaits   *)
(* runs atomically; every `await` of an external collaborator is a point   *)
(* where the coroutine is suspended and any other operation may run.       *)
(***************************************************************************)
EXTENDS Integers, Sequences, FiniteSets, TLC

\* ---------------------------------------------------------------- bounds
MaxId == 2          \* peer ids range over 0..MaxId
NumClients == 2     \* clients (accounts) 1..NumClients; client c's own user id is c
NumBuilders == 2    \* EventBuilder instances resolving concurrently (SpecShared)
MaxLookups == 2     \* cap on the number of client.get_peer_id('me') calls counted

\* ------------------------------------------------- external collaborators
\* utils.get_peer_id marks the kind of a peer by sign and offset.  The real
\* offset does not fit the integers of the model checker; any offset larger
\* than every peer id keeps the three encodings of one id apart.
ChannelOffset == 1000000000

Kinds == {"User", "Chat", "Channel"}
Ids == 0..MaxId
Clients == 1..NumClients

Peer(k, v) == [k |-> k, v |-> v]
PeerUser(v) == Peer("User", v)
PeerChat(v) == Peer("Chat", v)
PeerChannel(v) == Peer("Channel", v)
NoPeer == Peer("None", 0)

\* utils.get_peer_id on a peer-shaped value (Peer* and InputPeer* alike).
GetPeerId(p) ==
    IF p.k = "User" THEN p.v
    ELSE IF p.k = "Chat" THEN -p.v
    ELSE -(ChannelOffset + p.v)

\* The chat references an event can carry.
PeerSet == {Peer(k, v) : k \in Kinds, v \in Ids}

\* ------------------------------------------------------ chat specifications
\* One element of a chat specification: an int, a Peer-tagged TLObject
\* (SUBCLASS_OF_ID == crc32(b'Peer')), or anything else (a username, an
\* entity, ...) that only client.get_input_entity can resolve.
IntSpec(n) == [t |-> "int", k |-> "int", v |-> n]
PeerSpec(p) == [t |-> "peer", k |-> p.k, v |-> p.v]
RefSpec == [t |-> "ref", k |-> "ref", v |-> 0]

Specifiers ==
    {IntSpec(n) : n \in -MaxId..MaxId}
        \cup {PeerSpec(p) : p \in {q \in PeerSet : q.v > 0}}
        \cup {RefSpec}

\* The values of EventBuilder.chats: None, one specifier that is not list-like,
\* a list of specifiers, or (after resolve) a set of ids.
None == [tag |-> "None", seq |-> <<>>, ids |-> {}]
Single(s) == [tag |-> "single", seq |-> <<s>>, ids |-> {}]
List(q) == [tag |-> "list", seq |-> q, ids |-> {}]
IdSet(S) == [tag |-> "ids", seq |-> <<>>, ids |-> S]

ChatSpecs ==
    {None, List(<<>>)}
        \cup {Single(s) : s \in Specifiers}
        \cup {List(<<s>>) : s \in Specifiers}
        \cup {List(<<s, t>>) : s \in Specifiers, t \in Specifiers}

RECURSIVE SeqOf(_)
SeqOf(S) ==
    IF S = {} THEN <<>>
    ELSE LET x == CHOOSE y \in S : TRUE IN <<IntSpec(x)>> \o SeqOf(S \ {x})

\* `if not utils.is_list_like(chats): chats = (chats,)` and the iteration
\* order of `for chat in chats`.
Items(c) == IF c.tag = "ids" THEN SeqOf(c.ids) ELSE c.seq


\* ------------------------------------------------------------ _into_id_set
\* Faulty variant of ExpandInt: the sign test is `chat <= 0`.
ExpandIntNonPositive(chat) ==
    IF chat <= 0
    THEN {chat}
    ELSE {GetPeerId(PeerUser(chat)), GetPeerId(PeerChat(chat)), GetPeerId(PeerChannel(chat))}

\* Faulty variant of ExpandInt: the channel encoding is forgotten.
ExpandIntNoChannel(chat) ==
    IF chat < 0
    THEN {chat}
    ELSE {GetPeerId(PeerUser(chat)), GetPeerId(PeerChat(chat))}

\* Lines 19-27: the ids one int contributes.
ExpandInt(chat) ==
    IF chat < 0
    THEN {chat}
    ELSE {GetPeerId(PeerUser(chat)), GetPeerId(PeerChat(chat)), GetPeerId(PeerChannel(chat))}

\* Faulty variant of Loop: a Peer-tagged element is not recognised and is sent
\* to client.get_input_entity like any other object.
RECURSIVE LoopLooksUpPeers(_, _, _)
LoopLooksUpPeers(items, i, result) ==
    IF i > Len(items)
    THEN [idx |-> i, result |-> result]
    ELSE LET chat == items[i] IN
         IF chat.t = "int"
         THEN LoopLooksUpPeers(items, i + 1, result \cup ExpandInt(chat.v))
         ELSE [idx |-> i, result |-> result]

\* Lines 18-30: the loop over the elements that need no await, from element i
\* on: it stops at the first element that needs client.get_input_entity
\* (idx <= Len(items)) or at the end of the iteration (idx = Len(items) + 1).
RECURSIVE Loop(_, _, _)
Loop(items, i, result) ==
    IF i > Len(items)
    THEN [idx |-> i, result |-> result]
    ELSE LET chat == items[i] IN
         IF chat.t = "int"
         THEN Loop(items, i + 1, result \cup ExpandInt(chat.v))
         ELSE IF chat.t = "peer"
         THEN Loop(items, i + 1, result \cup {GetPeerId(chat)})
         ELSE [idx |-> i, result |-> result]

\* What client.get_input_entity(chat) can do: return an input peer, return
\* InputPeerSelf, or raise.
InputEntityOutcomes ==
    {[r |-> "peer", k |-> p.k, v |-> p.v] : p \in {q \in PeerSet : q.v > 0}}
        \cup {[r |-> "self", k |-> "None", v |-> 0], [r |-> "raise", k |-> "None", v |-> 0]}

\* What client.get_me(input_peer=True) and client.get_peer_id('me') can do.
SelfOutcomes == {"return", "raise"}

\* ------------------------------------------------------------------ state
VARIABLES
    ctor_chats,       \* the chats argument every builder was constructed with
    chats,            \* EventBuilder.chats of every constructed builder
    blacklist_chats,  \* EventBuilder.blacklist_chats of every constructed builder
    self_id,          \* the class attribute EventBuilder.self_id
    co,               \* the resolve coroutine of every builder: where it is suspended and its locals
    stub,             \* counters of the client.get_peer_id('me') collaborator and of the cache writes
    ret,              \* what the most recent call or step returned
    log,              \* per builder, the external lookups of its current or last resolve call
    ev,               \* one EventCommon instance
    ev_type,          \* type(ev): the inner Event class ev is an instance of
    attrs,            \* the entries of ev.__dict__ besides the fields __init__ sets with a `_` name
    event_name,       \* the _event_name attribute each inner Event class has of its own
    decorated         \* the classes name_inner_event has been applied to

vars == <<ctor_chats, chats, blacklist_chats, self_id, co, stub, ret, log, ev, ev_type, attrs,
          event_name, decorated>>

\* EventBuilder.self_id = None; `not EventBuilder.self_id` holds of it.
SelfIdNone == 0

Idle ==
    [pc |-> "idle", client |-> 0, idx |-> 0, result |-> {}, calls |-> 0, me_calls |-> 0,
     entry |-> None]

\* `value` is the returned object where a claim is about its contents
\* (the dict of to_dict); an empty mapping otherwise.
Ret(op, f, arg, out, at, lookups) ==
    [op |-> op, f |-> f, arg |-> arg, out |-> out, at |-> at, lookups |-> lookups,
     value |-> <<>>]

NoRet == Ret("none", 0, NoPeer, "none", "none", 0)

\* The lookups of one resolve call: the chats value it was called on and, for
\* every element that went to client.get_input_entity, the position of the
\* element, what the call returned and what client.get_me returned after it.
NewLog(entry) == [entry |-> entry, seq |-> <<>>]
Looked(idx, got) == [idx |-> idx, got |-> got, me |-> NoPeer]

\* ------------------------------------------------------------ EventCommon
\* Entities of the snapshot: a user, basic group or channel; access_hash 0
\* stands for a missing (None or 0) credential, 1 for a present one.
Entity(k, v, h, s) == [k |-> k, v |-> v, access_hash |-> h, is_self |-> s]
NoEntity == Entity("None", 0, 0, FALSE)

Entities ==
    {Entity("User", v, h, s) : v \in 1..MaxId, h \in 0..1, s \in BOOLEAN}
        \cup {Entity("Chat", v, 0, FALSE) : v \in 1..MaxId}
        \cup {Entity("Channel", v, h, FALSE) : v \in 1..MaxId, h \in 0..1}

\* Input peers; has_hash says whether the object has an access_hash attribute.
InputPeer(t, v, h, a) == [t |-> t, v |-> v, access_hash |-> h, has_hash |-> a]
NoInput == InputPeer("None", 0, 0, FALSE)

\* utils.get_input_peer(entity).
GetInputPeer(e) ==
    IF e.k = "User"
    THEN IF e.is_self
         THEN InputPeer("InputPeerSelf", 0, 0, FALSE)
         ELSE InputPeer("InputPeerUser", e.v, e.access_hash, TRUE)
    ELSE IF e.k = "Chat"
    THEN InputPeer("InputPeerChat", e.v, 0, FALSE)
    ELSE InputPeer("InputPeerChannel", e.v, e.access_hash, TRUE)

\* What session.get_input_entity(peer) returns when it finds the peer.
SessionInputEntity(p) ==
    IF p.k = "User" THEN InputPeer("InputPeerUser", p.v, 1, TRUE)
    ELSE IF p.k = "Chat" THEN InputPeer("InputPeerChat", p.v, 0, FALSE)
    ELSE InputPeer("InputPeerChannel", p.v, 1, TRUE)

\* What session.get_input_entity can do: return, raise ValueError (not
\* found), or raise anything else.
SessionOutcomes == {"return", "ValueError", "error"}

\* The snapshots the dispatch layer hands to an event, keyed by
\* utils.get_peer_id of each entity.
Snapshots == {{}} \cup {{e} : e \in Entities}

\* EventCommon.__init__(chat_peer): lines 100-108.
NewEvent(chat_peer) ==
    [entities |-> {}, client |-> 0, chat_peer |-> chat_peer, input_chat |-> NoInput,
     chat |-> NoEntity]

\* ChatGetter.chat_id and self._entities.get(self.chat_id): line 115.
EntitiesGet(e) ==
    IF e.chat_peer = NoPeer
    THEN NoEntity
    ELSE LET found == {x \in e.entities : GetPeerId(x) = GetPeerId(e.chat_peer)} IN
         IF found = {} THEN NoEntity ELSE CHOOSE x \in found : TRUE

\* Attribute names; `k[0]` is k.first.  Attribute names are identifiers, so
\* they have a first character.
Name(first, rest) == [first |-> first, rest |-> rest]

\* The fields __init__ sets with a `_` name (lines 101-107) and the public one
\* (line 108).
PrivateFields ==
    {Name("_", "entities"), Name("_", "client"), Name("_", "chat_peer"),
     Name("_", "message_id"), Name("_", "input_chat"), Name("_", "chat"),
     Name("_", "broadcast")}
OriginalUpdate == Name("o", "riginal_update")

\* Attributes a subclass or a caller sets on the event later on.
ExtraNames == {Name("p", "attern_match"), Name("_", "sender")}
AttrValues == 0..1

\* The key '_' of to_dict.
Discriminator == Name("_", "")

\* The attrs of a new event: original_update = None (line 108).
NewAttrs == [k \in {OriginalUpdate} |-> 0]

\* self.__dict__: the fields of __init__ and every attribute set since.
FieldValue(e, k) ==
    IF k.rest = "entities" THEN e.entities
    ELSE IF k.rest = "client" THEN e.client
    ELSE IF k.rest = "chat_peer" THEN e.chat_peer
    ELSE IF k.rest = "input_chat" THEN e.input_chat
    ELSE IF k.rest = "chat" THEN e.chat
    ELSE IF k.rest = "broadcast" THEN FALSE
    ELSE 0

ObjDict(e, a) ==
    [k \in PrivateFields \cup DOMAIN a |-> IF k \in DOMAIN a THEN a[k] ELSE FieldValue(e, k)]

\* The classes name_inner_event is applied to, and the inner Event class
\* `cls.Event` finds for each ("none" when hasattr(cls, 'Event') is false):
\* Base defines its own Event; Derived is a subclass of Base that inherits
\* Base.Event; Edited is a subclass of Base that defines its own Event, a
\* subclass of Base.Event; Plain has no Event.
Classes == {"Base", "Derived", "Edited", "Plain"}
InnerEvent(cls) ==
    IF cls \in {"Base", "Derived"} THEN "Base.Event"
    ELSE IF cls = "Edited" THEN "Edited.Event"
    ELSE "none"

\* The event classes and the class each one inherits from.
EventTypes == {"EventCommon", "Base.Event", "Edited.Event"}
Parent(t) == IF t = "Edited.Event" THEN "Base.Event" ELSE "EventCommon"

\* Line 98: EventCommon._event_name = 'Event'; no other class has the
\* attribute of its own (<<>>) until name_inner_event sets it.
DefaultEventNames == [t \in EventTypes |-> IF t = "EventCommon" THEN <<"Event">> ELSE <<>>]

\* self._event_name: the attribute of type(self), or of the nearest class it
\* inherits from that has it.
RECURSIVE EventName(_, _)
EventName(names, t) == IF names[t] # <<>> THEN names[t] ELSE EventName(names, Parent(t))

\* ------------------------------------------------------ EventBuilder.resolve
\* Lines 69-71 once _into_id_set has returned: store its result, then fill the
\* shared cache when it is empty.  The check of the cache and the write to it
\* are separated by the await of client.get_peer_id('me').
StoreAndCache(f, c, newchats, lookups) ==
    /\ chats' = [chats EXCEPT ![f] = newchats]
    /\ IF self_id = SelfIdNone
       THEN /\ stub.peer_id_calls < MaxLookups
            /\ co' = [co EXCEPT ![f] = [Idle EXCEPT !.pc = "get_peer_id", !.client = c,
                                                    !.calls = lookups]]
            /\ stub' = [stub EXCEPT !.peer_id_calls = @ + 1]
            /\ ret' = Ret("resolve", f, NoPeer, "pending", "get_peer_id", lookups)
       ELSE /\ co' = [co EXCEPT ![f] = Idle]
            /\ ret' = Ret("resolve", f, NoPeer, "done", "none", lookups)
            /\ UNCHANGED stub
    /\ UNCHANGED <<ctor_chats, blacklist_chats, self_id, ev, ev_type, attrs, event_name,
                   decorated>>

\* Faulty variant of Advance: the ids accumulated so far are stored in
\* self.chats before each await.
AdvanceStoresProgress(f, c, entry, i, result, calls, me_calls) ==
    LET items == Items(entry)
        st == Loop(items, i, result)
    IN  IF st.idx > Len(items)
        THEN StoreAndCache(f, c, IdSet(st.result), calls + me_calls)
        ELSE /\ co' = [co EXCEPT ![f] =
                        [pc |-> "get_input_entity", client |-> c, idx |-> st.idx,
                         result |-> st.result, calls |-> calls + 1, me_calls |-> me_calls,
                         entry |-> entry]]
             /\ chats' = [chats EXCEPT ![f] = IdSet(st.result)]
             /\ ret' = Ret("resolve", f, NoPeer, "pending", "get_input_entity",
                           calls + 1 + me_calls)
             /\ UNCHANGED <<ctor_chats, blacklist_chats, self_id, stub, ev, ev_type,
                           attrs, event_name, decorated>>

\* _into_id_set from element i on, with `result` accumulated so far: run to
\* the next await (line 32) or to `return result` (line 37).
Advance(f, c, entry, i, result, calls, me_calls) ==
    LET items == Items(entry)
        st == Loop(items, i, result)
    IN  IF st.idx > Len(items)
        THEN StoreAndCache(f, c, IdSet(st.result), calls + me_calls)
        ELSE /\ co' = [co EXCEPT ![f] =
                        [pc |-> "get_input_entity", client |-> c, idx |-> st.idx,
                         result |-> st.result, calls |-> calls + 1, me_calls |-> me_calls,
                         entry |-> entry]]
             /\ ret' = Ret("resolve", f, NoPeer, "pending", "get_input_entity",
                           calls + 1 + me_calls)
             /\ UNCHANGED <<ctor_chats, chats, blacklist_chats, self_id, stub, ev, ev_type,
                           attrs, event_name, decorated>>

\* Faulty variant of Raise: the ids accumulated so far are stored on the way out.
RaiseStoresPartial(f, at) ==
    /\ co' = [co EXCEPT ![f] = Idle]
    /\ chats' = [chats EXCEPT ![f] = IdSet(co[f].result)]
    /\ ret' = Ret("resolve", f, NoPeer, "raise", at, co[f].calls + co[f].me_calls)
    /\ UNCHANGED <<ctor_chats, blacklist_chats, self_id, log, ev, ev_type, attrs, event_name,
                   decorated>>

\* An await raised: the exception leaves resolve, the coroutine is over.
Raise(f, at) ==
    /\ co' = [co EXCEPT ![f] = Idle]
    /\ ret' = Ret("resolve", f, NoPeer, "raise", at, co[f].calls + co[f].me_calls)
    /\ UNCHANGED <<ctor_chats, chats, blacklist_chats, self_id, log, ev, ev_type, attrs,
                   event_name, decorated>>

\* Faulty variant of ResolveCall: _into_id_set has no `chats is None` test.
ResolveCallNoNoneTest(f, c) ==
    /\ co[f].pc = "idle"
    /\ log' = [log EXCEPT ![f] = NewLog(chats[f])]
    /\ Advance(f, c, chats[f], 1, {}, 0, 0)

\* Faulty variant of ResolveCall: the test is `if not chats`, which an empty
\* collection passes too.
ResolveCallFalsyTest(f, c) ==
    /\ co[f].pc = "idle"
    /\ log' = [log EXCEPT ![f] = NewLog(chats[f])]
    /\ IF chats[f] = None \/ (chats[f].tag # "single" /\ Items(chats[f]) = <<>>)
       THEN StoreAndCache(f, c, None, 0)
       ELSE Advance(f, c, chats[f], 1, {}, 0, 0)

\* `await builder.resolve(client)` is started: lines 69 and 9-15.
ResolveCall(f, c) ==
    /\ co[f].pc = "idle"
    /\ log' = [log EXCEPT ![f] = NewLog(chats[f])]
    /\ IF chats[f] = None
       THEN StoreAndCache(f, c, None, 0)
       ELSE Advance(f, c, chats[f], 1, {}, 0, 0)

\* Line 32 resumes: client.get_input_entity(chat) returned or raised.
GetInputEntityReturn(f) ==
    /\ co[f].pc = "get_input_entity"
    /\ \E out \in InputEntityOutcomes :
         IF out.r = "raise"
         THEN Raise(f, "get_input_entity") /\ UNCHANGED stub
         ELSE IF out.r = "self"
         THEN /\ co' = [co EXCEPT ![f].pc = "get_me", ![f].me_calls = @ + 1]
              /\ log' = [log EXCEPT ![f].seq = Append(@, Looked(co[f].idx, out))]
              /\ ret' = Ret("resolve", f, NoPeer, "pending", "get_me",
                            co[f].calls + co[f].me_calls + 1)
              /\ UNCHANGED <<ctor_chats, chats, blacklist_chats, self_id, stub, ev, ev_type,
                           attrs, event_name, decorated>>
         ELSE /\ Advance(f, co[f].client, co[f].entry, co[f].idx + 1,
                         co[f].result \cup {GetPeerId(out)}, co[f].calls, co[f].me_calls)
              /\ log' = [log EXCEPT ![f].seq = Append(@, Looked(co[f].idx, out))]

\* Line 34 resumes: client.get_me(input_peer=True) returned the client's own
\* InputPeerUser or raised.
GetMeReturn(f) ==
    /\ co[f].pc = "get_me"
    /\ \E out \in SelfOutcomes :
         IF out = "raise"
         THEN Raise(f, "get_me") /\ UNCHANGED stub
         ELSE /\ Advance(f, co[f].client, co[f].entry, co[f].idx + 1,
                         co[f].result \cup {GetPeerId(PeerUser(co[f].client))},
                         co[f].calls, co[f].me_calls)
              /\ log' = [log EXCEPT ![f].seq[Len(log[f].seq)].me = PeerUser(co[f].client)]

\* Line 71 resumes: client.get_peer_id('me') returned the client's own id,
\* which is written to the shared cache, or raised.
GetPeerIdReturn(f) ==
    /\ co[f].pc = "get_peer_id"
    /\ \E out \in SelfOutcomes :
         IF out = "raise"
         THEN Raise(f, "get_peer_id") /\ stub' = [stub EXCEPT !.peer_id_raised = @ + 1]
         ELSE /\ self_id' = GetPeerId(PeerUser(co[f].client))
              /\ stub' = [stub EXCEPT !.self_id_writes = @ + 1]
              /\ co' = [co EXCEPT ![f] = Idle]
              /\ ret' = Ret("resolve", f, NoPeer, "done", "none", co[f].calls)
              /\ UNCHANGED <<ctor_chats, chats, blacklist_chats, log, ev, ev_type, attrs,
                             event_name, decorated>>

\* ------------------------------------------------------- EventBuilder.filter
\* `utils.get_peer_id(event._chat_peer) in self.chats`: membership in the id
\* set, or, on a list that was never resolved, equality with one of its ints.
Inside(c, id) ==
    IF c.tag = "ids"
    THEN id \in c.ids
    ELSE \E i \in 1..Len(c.seq) : c.seq[i].t = "int" /\ c.seq[i].v = id

\* Faulty variant of FilterResult: blacklist_chats is ignored.
FilterResultWhitelistOnly(c, blacklist, chat_peer) ==
    IF c # None
    THEN IF c.tag = "single"
         THEN "raise"
         ELSE IF Inside(c, GetPeerId(chat_peer)) THEN "event" ELSE "None"
    ELSE "event"

\* Lines 78-84: "event" for `return event`, "None" for `return None`; `in`
\* raises TypeError on a chats value that is not a container.
FilterResult(c, blacklist, chat_peer) ==
    IF c # None
    THEN IF c.tag = "single"
         THEN "raise"
         ELSE IF Inside(c, GetPeerId(chat_peer)) = blacklist THEN "None" ELSE "event"
    ELSE "event"

\* Faulty variant of Filter: a chats value that is not a container is wrapped
\* into one and stored back.
FilterWrapsChats(f, chat_peer) ==
    /\ ret' = Ret("filter", f, chat_peer,
                  FilterResult(chats[f], blacklist_chats[f], chat_peer), "none", 0)
    /\ chats' = [chats EXCEPT ![f] = IF @.tag = "single" THEN List(@.seq) ELSE @]
    /\ UNCHANGED <<ctor_chats, blacklist_chats, self_id, co, stub, log, ev, ev_type, attrs,
                   event_name, decorated>>

\* Lines 73-84.
Filter(f, chat_peer) ==
    /\ ret' = Ret("filter", f, chat_peer,
                  FilterResult(chats[f], blacklist_chats[f], chat_peer), "none", 0)
    /\ UNCHANGED <<ctor_chats, chats, blacklist_chats, self_id, co, stub, log, ev, ev_type, attrs,
                   event_name, decorated>>

\* -------------------------------------------------- EventCommon._set_client
\* Faulty variant of LacksAccessHash: getattr defaults to a falsy value.
LacksAccessHashDefaultFalsy(ip) == ~ip.has_hash \/ ip.access_hash = 0

\* `not getattr(self._input_chat, 'access_hash', True)`: line 120.
LacksAccessHash(ip) == ip.has_hash /\ ip.access_hash = 0

\* Faulty variant of SetClient: the except clause keeps the input peer that
\* has no access hash.
SetClientKeepsHashless(c, session) ==
    LET chat == EntitiesGet(ev)
        input_chat == GetInputPeer(chat)
    IN  IF chat = NoEntity
        THEN /\ ev' = [ev EXCEPT !.client = c, !.chat = NoEntity]
             /\ ret' = Ret("_set_client", 0, ev.chat_peer, "return", "none", 0)
        ELSE IF ~LacksAccessHash(input_chat)
        THEN /\ ev' = [ev EXCEPT !.client = c, !.chat = chat, !.input_chat = input_chat]
             /\ ret' = Ret("_set_client", 0, ev.chat_peer, "return", "none", 0)
        ELSE IF session = "return"
        THEN /\ ev' = [ev EXCEPT !.client = c, !.chat = chat,
                                 !.input_chat = SessionInputEntity(ev.chat_peer)]
             /\ ret' = Ret("_set_client", 0, ev.chat_peer, "return", "session", 1)
        ELSE IF session = "ValueError"
        THEN /\ ev' = [ev EXCEPT !.client = c, !.chat = chat, !.input_chat = input_chat]
             /\ ret' = Ret("_set_client", 0, ev.chat_peer, "return", "ValueError", 1)
        ELSE /\ ev' = [ev EXCEPT !.client = c, !.chat = chat, !.input_chat = input_chat]
             /\ ret' = Ret("_set_client", 0, ev.chat_peer, "raise", "error", 1)

\* Faulty variant of SetClient: line 114 is missing, the client is not recorded
\* while the derived fields are computed.
SetClientForgetsClient(c, session) ==
    LET chat == EntitiesGet(ev)
        input_chat == GetInputPeer(chat)
    IN  IF chat = NoEntity
        THEN /\ ev' = [ev EXCEPT !.chat = NoEntity]
             /\ ret' = Ret("_set_client", 0, ev.chat_peer, "return", "none", 0)
        ELSE IF ~LacksAccessHash(input_chat)
        THEN /\ ev' = [ev EXCEPT !.chat = chat, !.input_chat = input_chat]
             /\ ret' = Ret("_set_client", 0, ev.chat_peer, "return", "none", 0)
        ELSE IF session = "return"
        THEN /\ ev' = [ev EXCEPT !.chat = chat,
                                 !.input_chat = SessionInputEntity(ev.chat_peer)]
             /\ ret' = Ret("_set_client", 0, ev.chat_peer, "return", "session", 1)
        ELSE IF session = "ValueError"
        THEN /\ ev' = [ev EXCEPT !.chat = chat, !.input_chat = NoInput]
             /\ ret' = Ret("_set_client", 0, ev.chat_peer, "return", "ValueError", 1)
        ELSE /\ ev' = [ev EXCEPT !.chat = chat, !.input_chat = input_chat]
             /\ ret' = Ret("_set_client", 0, ev.chat_peer, "raise", "error", 1)

\* Lines 110-127; `session` is what session.get_input_entity does if called.
\* ret.at tells how the session call ended: "session" (it returned),
\* "ValueError" (caught at line 126) or "error" (any other exception, which
\* line 126 does not catch).
SetClient(c, session) ==
    LET chat == EntitiesGet(ev)
        input_chat == GetInputPeer(chat)
    IN  IF chat = NoEntity
        THEN /\ ev' = [ev EXCEPT !.client = c, !.chat = NoEntity]
             /\ ret' = Ret("_set_client", 0, ev.chat_peer, "return", "none", 0)
        ELSE IF ~LacksAccessHash(input_chat)
        THEN /\ ev' = [ev EXCEPT !.client = c, !.chat = chat, !.input_chat = input_chat]
             /\ ret' = Ret("_set_client", 0, ev.chat_peer, "return", "none", 0)
        ELSE IF session = "return"
        THEN /\ ev' = [ev EXCEPT !.client = c, !.chat = chat,
                                 !.input_chat = SessionInputEntity(ev.chat_peer)]
             /\ ret' = Ret("_set_client", 0, ev.chat_peer, "return", "session", 1)
        ELSE IF session = "ValueError"
        THEN /\ ev' = [ev EXCEPT !.client = c, !.chat = chat, !.input_chat = NoInput]
             /\ ret' = Ret("_set_client", 0, ev.chat_peer, "return", "ValueError", 1)
        ELSE /\ ev' = [ev EXCEPT !.client = c, !.chat = chat, !.input_chat = input_chat]
             /\ ret' = Ret("_set_client", 0, ev.chat_peer, "raise", "error", 1)

Bind(c) ==
    /\ \E session \in SessionOutcomes : SetClient(c, session)
    /\ UNCHANGED <<ctor_chats, chats, blacklist_chats, self_id, co, stub, log, ev_type, attrs,
                   event_name, decorated>>

\* The dispatch layer replaces the entity snapshot of the event.
SetEntities(snapshot) ==
    /\ ev' = [ev EXCEPT !.entities = snapshot]
    /\ ret' = Ret("_entities", 0, ev.chat_peer, "return", "none", 0)
    /\ UNCHANGED <<ctor_chats, chats, blacklist_chats, self_id, co, stub, log, ev_type, attrs,
                   event_name, decorated>>

\* A caller or a subclass sets an attribute of the event.
SetAttr(k, v) ==
    /\ attrs' = [x \in DOMAIN attrs \cup {k} |-> IF x = k THEN v ELSE attrs[x]]
    /\ ret' = Ret("setattr", 0, ev.chat_peer, "return", "none", 0)
    /\ UNCHANGED <<ctor_chats, chats, blacklist_chats, self_id, co, stub, log, ev, ev_type,
                   event_name, decorated>>

\* ------------------------------------------------------ EventCommon.to_dict
\* Faulty variant of ToDictResult: the comprehension has no `k[0] != '_'` test.
ToDictResultNoFilter(dict, name) ==
    [k \in DOMAIN dict \cup {Discriminator} |-> IF k = Discriminator THEN name ELSE dict[k]]

\* Lines 143-145.
ToDictResult(dict, name) ==
    LET d == [k \in {x \in DOMAIN dict : x.first # "_"} |-> dict[k]]
    IN  [k \in DOMAIN d \cup {Discriminator} |-> IF k = Discriminator THEN name ELSE d[k]]

ToDict ==
    /\ ret' = [Ret("to_dict", 0, ev.chat_peer, "return", "none", 0) EXCEPT
                  !.value = ToDictResult(ObjDict(ev, attrs), EventName(event_name, ev_type))]
    /\ UNCHANGED <<ctor_chats, chats, blacklist_chats, self_id, co, stub, log, ev, ev_type,
                   attrs, event_name, decorated>>

\* --------------------------------------------------------- name_inner_event
\* Lines 148-154: "return" when the name was set, "warn" when warnings.warn
\* was called; cls is returned in both cases (ret.at).
NameInnerEvent(cls) ==
    /\ IF InnerEvent(cls) # "none"
       THEN /\ event_name' = [event_name EXCEPT ![InnerEvent(cls)] = <<cls, "Event">>]
            /\ ret' = Ret("name_inner_event", 0, NoPeer, "return", cls, 0)
       ELSE /\ UNCHANGED event_name
            /\ ret' = Ret("name_inner_event", 0, NoPeer, "warn", cls, 0)
    /\ decorated' = decorated \cup {cls}
    /\ UNCHANGED <<ctor_chats, chats, blacklist_chats, self_id, co, stub, log, ev, ev_type,
                   attrs>>

\* --------------------------------------------------------- specifications
NoStub == [peer_id_calls |-> 0, peer_id_raised |-> 0, self_id_writes |-> 0]

\* EventBuilder(chats, blacklist_chats) for the builders of the set B.
Construct(B, specs) ==
    /\ ctor_chats \in [B -> specs]
    /\ chats = ctor_chats
    /\ blacklist_chats \in [B -> BOOLEAN]
    /\ co = [f \in B |-> Idle]
    /\ log = [f \in B |-> NewLog(None)]
    /\ self_id = SelfIdNone
    /\ stub = NoStub
    /\ ret = NoRet

\* A new event of the class t, with no name_inner_event applied yet.
Event(t, chat_peer) ==
    /\ ev = NewEvent(chat_peer)
    /\ ev_type = t
    /\ attrs = NewAttrs
    /\ event_name = DefaultEventNames
    /\ decorated = {}

\* One builder, constructed with any chat specification.
Init ==
    /\ Construct({1}, ChatSpecs)
    /\ Event("EventCommon", NoPeer)

Next ==
    \/ \E f \in DOMAIN chats, c \in Clients : ResolveCall(f, c)
    \/ \E f \in DOMAIN chats : GetInputEntityReturn(f)
    \/ \E f \in DOMAIN chats : GetMeReturn(f)
    \/ \E f \in DOMAIN chats : GetPeerIdReturn(f)
    \/ \E f \in DOMAIN chats, p \in PeerSet : Filter(f, p)

Spec == Init /\ [][Next]_vars

\* Several builders that share EventBuilder.self_id, resolved concurrently.
SharedSpecs == {None, List(<<RefSpec>>)}

InitShared ==
    /\ Construct(1..NumBuilders, SharedSpecs)
    /\ Event("EventCommon", NoPeer)

SpecShared == InitShared /\ [][Next]_vars

\* One event; no builder.
InitEvent ==
    /\ Construct({}, ChatSpecs)
    /\ \E p \in {q \in PeerSet : q.v > 0} \cup {NoPeer} : Event("EventCommon", p)

NextEvent ==
    \/ \E c \in Clients : Bind(c)
    \/ \E s \in Snapshots : SetEntities(s)
    \/ \E k \in {OriginalUpdate} \cup ExtraNames, v \in AttrValues : SetAttr(k, v)
    \/ ToDict

SpecEvent == InitEvent /\ [][NextEvent]_vars

\* The event classes and the decorator; no builder.
InitNames ==
    /\ Construct({}, ChatSpecs)
    /\ \E t \in EventTypes : Event(t, NoPeer)

NextNames ==
    \/ \E cls \in Classes : NameInnerEvent(cls)
    \/ \E k \in {OriginalUpdate} \cup ExtraNames, v \in AttrValues : SetAttr(k, v)
    \/ ToDict

SpecNames == InitNames /\ [][NextNames]_vars

\* ------------------------------------------------------------- properties
\* The last call was builder.filter(event) on builder ret.f with
\* event._chat_peer = ret.arg; no field of the builder changed since.
Filtered == ret.op = "filter"

\* C1: on a builder whose chats is an id set S, filter returns the event iff
\* (get_peer_id(event._chat_peer) \in S) differs from blacklist_chats, and
\* None otherwise; for the same S and event exactly one of the whitelist and
\* the blacklist decision keeps the event.
FilterDecisionRule ==
    (Filtered /\ chats[ret.f].tag = "ids") =>
        LET S == chats[ret.f].ids
            id == GetPeerId(ret.arg)
        IN  /\ ret.out \in {"event", "None"}
            /\ (ret.out = "event") = ((id \in S) # blacklist_chats[ret.f])
            /\ (FilterResult(IdSet(S), FALSE, ret.arg) = "event")
                   # (FilterResult(IdSet(S), TRUE, ret.arg) = "event")

\* A blacklist filter drops an event whose chat is in its non-empty id set.
FilterDecisionRuleWitness ==
    /\ Filtered
    /\ chats[ret.f].tag = "ids"
    /\ GetPeerId(ret.arg) \in chats[ret.f].ids
    /\ blacklist_chats[ret.f]
    /\ ret.out = "None"

\* C2: a builder constructed with chats=None keeps every event, in whitelist
\* and in blacklist mode, before resolve and after any number of resolves
\* (which leave chats None).
NoneKeepsEveryEvent ==
    \A f \in DOMAIN chats :
        ctor_chats[f] = None =>
            /\ chats[f] = None
            /\ (Filtered /\ ret.f = f) => ret.out = "event"

\* A blacklist builder constructed with None filters an event after its
\* resolve has run to the end and filled the cache.
NoneKeepsEveryEventWitness ==
    /\ Filtered
    /\ ctor_chats[ret.f] = None
    /\ blacklist_chats[ret.f]
    /\ self_id # SelfIdNone
    /\ ret.out = "event"

\* C3, as stated: a builder constructed with None or with an empty collection
\* keeps every event, in both modes, once resolve has stored its result.
AbsentOrEmptyIsUnbounded ==
    (/\ Filtered
     /\ ctor_chats[ret.f] \in {None, List(<<>>)}
     /\ chats[ret.f].tag \in {"None", "ids"})
        => ret.out = "event"

\* C3, amended: None resolves to None and every event is kept in both modes;
\* an empty collection resolves to the empty id set, which keeps every event
\* in blacklist mode and no event in whitelist mode.
AbsentUnboundedEmptyIsEmptySet ==
    \A f \in DOMAIN chats :
        /\ ctor_chats[f] = None =>
              /\ chats[f] = None
              /\ (Filtered /\ ret.f = f) => ret.out = "event"
        /\ (ctor_chats[f] = List(<<>>) /\ chats[f] # ctor_chats[f]) =>
              /\ chats[f] = IdSet({})
              /\ (Filtered /\ ret.f = f) =>
                     ret.out = (IF blacklist_chats[f] THEN "event" ELSE "None")

\* A whitelist builder constructed with an empty list, resolved, drops an event.
AbsentUnboundedEmptyIsEmptySetWitness ==
    /\ Filtered
    /\ ctor_chats[ret.f] = List(<<>>)
    /\ chats[ret.f] = IdSet({})
    /\ ~blacklist_chats[ret.f]
    /\ ret.out = "None"

\* The three encodings of the id n.
Encodings(n) == {GetPeerId(PeerUser(n)), GetPeerId(PeerChat(n)), GetPeerId(PeerChannel(n))}

\* The id set stored by resolve on a builder constructed with the single int n.
Contribution(f, n) == ctor_chats[f] = Single(IntSpec(n)) /\ chats[f].tag = "ids"

SingleIdentityLookup ==
    /\ stub.peer_id_raised = 0 => stub.peer_id_calls <= 1
    /\ stub.self_id_writes <= 1

\* C6: once EventBuilder.self_id holds a value, no later step changes it, and
\* a resolve that is started while it holds a value makes no
\* client.get_peer_id('me') call.
CacheNeverChanges ==
    [][self_id # SelfIdNone =>
           /\ self_id' = self_id
           /\ \A f \in DOMAIN chats :
                  (co[f].pc = "idle" /\ co'[f].pc # "idle") => co'[f].pc # "get_peer_id"]_vars

\* The elements among the first i of items that need client.get_input_entity.
Refs(items, i) == {j \in 1..i : items[j].t = "ref"}

\* C7: when client.get_input_entity or client.get_me raises, resolve raises at
\* once: each element resolved so far was looked up once (no retry), chats is
\* what it was when resolve was called, and the call wrote no cache.
LookupFailureStoresNothing ==
    [][\A f \in DOMAIN chats :
           (/\ co[f].pc \in {"get_input_entity", "get_me"}
            /\ ret'.op = "resolve" /\ ret'.f = f /\ ret'.out = "raise")
               => /\ ret'.at = co[f].pc
                  /\ co'[f].pc = "idle"
                  /\ co[f].calls = Cardinality(Refs(Items(co[f].entry), co[f].idx))
                  /\ co[f].me_calls <= co[f].calls
                  /\ chats[f] = co[f].entry
                  /\ chats'[f] = co[f].entry
                  /\ self_id' = self_id
                  /\ stub' = stub]_vars

\* client.get_me raised on the second element of a list whose first element,
\* an int, had already been expanded into the accumulated set.
LookupFailureStoresNothingWitness ==
    /\ ret.op = "resolve"
    /\ ret.out = "raise"
    /\ ret.at = "get_me"
    /\ chats[ret.f].tag = "list"
    /\ Len(chats[ret.f].seq) = 2
    /\ chats[ret.f].seq[1].t = "int"

\* C8: a builder constructed with chats=[n], n >= 0, and resolved has the scope
\* {userId(n), chatId(n), channelId(n)}; in whitelist mode it keeps the event
\* of channel n and drops the event of any user, basic group or channel m # n;
\* in blacklist mode it drops the former and keeps the latter.
IntScopeEndToEnd ==
    \A f \in DOMAIN chats : \A n \in Ids :
        (ctor_chats[f] = List(<<IntSpec(n)>>) /\ chats[f].tag = "ids") =>
            /\ chats[f].ids = Encodings(n)
            /\ (Filtered /\ ret.f = f /\ ret.arg = PeerChannel(n)) =>
                   ret.out = (IF blacklist_chats[f] THEN "None" ELSE "event")
            /\ (Filtered /\ ret.f = f /\ ret.arg.v # n) =>
                   ret.out = (IF blacklist_chats[f] THEN "event" ELSE "None")

\* The whitelist scope of [1] keeps the event of channel 1.
IntScopeEndToEndWitness ==
    /\ Filtered
    /\ ctor_chats[ret.f] = List(<<IntSpec(1)>>)
    /\ chats[ret.f].tag = "ids"
    /\ ~blacklist_chats[ret.f]
    /\ ret.arg = PeerChannel(1)
    /\ ret.out = "event"

\* The last call was event._set_client(client); the snapshot and the chat
\* reference are those the call saw.
Bound == ret.op = "_set_client"

\* C9: _set_client on an event whose chat id is not in the snapshot returns
\* normally, records the client, leaves _chat and _input_chat None and does
\* not consult the session.
BindAbsentLeavesUndefined ==
    (Bound /\ EntitiesGet(ev) = NoEntity) =>
        /\ ret.out = "return"
        /\ ev.client # 0
        /\ ev.chat = NoEntity
        /\ ev.input_chat = NoInput
        /\ ret.lookups = 0

\* An input form that can be used as it is: it carries an access hash, or it
\* has no access_hash field at all (InputPeerSelf, InputPeerChat).
Usable(ip) == ip.access_hash # 0 \/ ~ip.has_hash

\* C10: _set_client on an event whose chat entity is in the snapshot, with an
\* input form that has an access hash or no access_hash field, sets _chat to
\* the entity and _input_chat to get_input_peer(entity), which is not None,
\* and does not consult the session.
BindPresentUsable ==
    (Bound /\ EntitiesGet(ev) # NoEntity /\ Usable(GetInputPeer(EntitiesGet(ev)))) =>
        /\ ret.out = "return"
        /\ ev.chat = EntitiesGet(ev)
        /\ ev.input_chat = GetInputPeer(EntitiesGet(ev))
        /\ ev.input_chat # NoInput
        /\ ret.lookups = 0

\* The event of the client's own chat was bound: its input chat is InputPeerSelf.
BindPresentUsableWitness ==
    /\ Bound
    /\ EntitiesGet(ev) # NoEntity
    /\ ev.chat.is_self
    /\ ev.input_chat.t = "InputPeerSelf"

\* C11: _set_client on an event whose chat entity is in the snapshot, with an
\* input form whose access hash is empty, calls session.get_input_entity
\* exactly once and keeps _chat the entity; if the session returns, the call
\* returns and _input_chat is the session's result; if the session raises
\* ValueError, the call returns all the same and _input_chat is None.
BindHashlessConsultsSession ==
    (Bound /\ EntitiesGet(ev) # NoEntity /\ ~Usable(GetInputPeer(EntitiesGet(ev)))) =>
        /\ ret.lookups = 1
        /\ ret.at \in {"session", "ValueError", "error"}
        /\ ev.chat = EntitiesGet(ev)
        /\ ret.at = "session" =>
               ret.out = "return" /\ ev.input_chat = SessionInputEntity(ev.chat_peer)
        /\ ret.at = "ValueError" => ret.out = "return" /\ ev.input_chat = NoInput

\* The session did not know the peer: the chat is set, the input chat is not.
BindHashlessConsultsSessionWitness ==
    /\ Bound
    /\ ret.at = "ValueError"
    /\ ret.out = "return"
    /\ ev.chat # NoEntity
    /\ ev.chat.access_hash = 0
    /\ ev.input_chat = NoInput

\* C12: while no client is attached, _chat and _input_chat are None; a newly
\* constructed event has an empty snapshot, no client and neither field.
UnboundHasNoDerivedFields ==
    /\ ev.client = 0 => ev.chat = NoEntity /\ ev.input_chat = NoInput
    /\ ret.op = "none" => ev = NewEvent(ev.chat_peer) /\ ev.entities = {} /\ attrs = NewAttrs

\* The snapshot already holds the chat entity, and the event is not bound yet.
UnboundHasNoDerivedFieldsWitness ==
    /\ ev.client = 0
    /\ EntitiesGet(ev) # NoEntity
    /\ ret.op = "_entities"

\* C19: whenever _chat is None, _input_chat is None too, after any sequence
\* of _set_client calls with the snapshot replaced in between.
NoChatNoInputChat ==
    ev.chat = NoEntity => ev.input_chat = NoInput

\* What the dict returned by the last to_dict call holds, against the event
\* it was called on.
ToDictContents ==
    LET d == ret.value
    IN  /\ Discriminator \in DOMAIN d
        /\ d[Discriminator] = EventName(event_name, ev_type)
        /\ \A k \in DOMAIN attrs : k.first # "_" => k \in DOMAIN d /\ d[k] = attrs[k]
        /\ \A k \in DOMAIN d : k.first = "_" => k = Discriminator
        /\ \A k \in DOMAIN d : k = Discriminator \/ k \in DOMAIN attrs

\* C13: the dict to_dict returns has the key '_' with the event's
\* _event_name, has every attribute of the event whose name does not start
\* with '_' with its current value, and has no attribute of the event whose
\* name starts with '_'; the call changes no field or attribute of the event.
ToDictIsPublicView ==
    [][ret'.op = "to_dict" =>
          /\ ToDictContents'
          /\ ev' = ev /\ attrs' = attrs /\ ev_type' = ev_type /\ event_name' = event_name]_vars

\* to_dict on a bound event that has a public and a private extra attribute.
ToDictIsPublicViewWitness ==
    /\ ret.op = "to_dict"
    /\ ev.client # 0
    /\ ev.chat # NoEntity
    /\ attrs[OriginalUpdate] = 1
    /\ ExtraNames \subseteq DOMAIN attrs
    /\ DOMAIN ret.value = {Discriminator, OriginalUpdate, Name("p", "attern_match")}

\* C15: every class name_inner_event was applied to that has an inner Event
\* class reports "<class name>.Event" as the '_' of its inner events' to_dict,
\* whether the Event class is its own or inherited.
DecoratedReportsOwnName ==
    \A cls \in decorated :
        (ret.op = "to_dict" /\ ev_type = InnerEvent(cls)) =>
            ret.value[Discriminator] = <<cls, "Event">>

\* The ids element i of the chats value contributes, given the lookups made.
ElementIds(items, seq, i) ==
    IF items[i].t = "int"
    THEN IF items[i].v < 0 THEN {items[i].v} ELSE Encodings(items[i].v)
    ELSE IF items[i].t = "peer"
    THEN {GetPeerId(items[i])}
    ELSE LET e == seq[CHOOSE j \in 1..Len(seq) : seq[j].idx = i]
         IN  {GetPeerId(IF e.got.r = "self" THEN e.me ELSE e.got)}

\* The union of the contributions of the elements the last resolve call of
\* builder f iterated over.
ExactUnion(f) ==
    LET items == Items(log[f].entry)
    IN  UNION {ElementIds(items, log[f].seq, i) : i \in 1..Len(items)}

\* resolve is suspended inside _into_id_set.
InLookup(f) == co[f].pc \in {"get_input_entity", "get_me"}

\* C14: when resolve has stored the id set of a non-empty chats value,
\* client.get_input_entity was called once for each element that is neither an
\* int nor Peer-tagged and for no other element, client.get_me was called
\* exactly for the calls that returned InputPeerSelf, and the set is the
\* union of: the expansion of each int, get_peer_id(p) of each Peer-tagged p,
\* and get_peer_id of the lookup result (of get_me's result when the lookup
\* returned InputPeerSelf) for every other element.
ResolveIsExactUnion ==
    \A f \in DOMAIN chats :
        (chats[f].tag = "ids" /\ ~InLookup(f) /\ Items(log[f].entry) # <<>>) =>
            LET items == Items(log[f].entry)
                seq == log[f].seq
                refs == {i \in 1..Len(items) : items[i].t = "ref"}
                selfs == {j \in 1..Len(seq) : seq[j].got.r = "self"}
            IN  /\ Len(seq) = Cardinality(refs)
                /\ {seq[j].idx : j \in 1..Len(seq)} = refs
                /\ \A j \in 1..Len(seq) : seq[j].me # NoPeer <=> j \in selfs
                /\ chats[f].ids = ExactUnion(f)
                /\ (ret.op = "resolve" /\ ret.f = f /\ ret.out # "raise") =>
                       ret.lookups = Len(seq) + Cardinality(selfs)

\* Two looked-up elements, the first of which was InputPeerSelf.
ResolveIsExactUnionWitness ==
    /\ ret.op = "resolve" /\ ret.out = "done"
    /\ chats[1].tag = "ids"
    /\ log[1].entry = List(<<RefSpec, RefSpec>>)
    /\ Len(log[1].seq) = 2
    /\ log[1].seq[1].got.r = "self"
    /\ log[1].seq[2].got.r = "peer"
    /\ Cardinality(chats[1].ids) = 2
    /\ ret.lookups = 3

\* C16: once chats is an id set, a further resolve call leaves it equal to
\* that set.
ResolveIdempotent ==
    [][\A f \in DOMAIN chats : chats[f].tag = "ids" => chats'[f] = chats[f]]_vars

NoPartialScopeObservable ==
    \A f \in DOMAIN chats :
        /\ InLookup(f) => chats[f] = co[f].entry /\ chats[f] = log[f].entry
        /\ \/ chats[f] = ctor_chats[f]
           \/ chats[f].tag = "ids" /\ ~InLookup(f) /\ chats[f].ids = ExactUnion(f)
        /\ (Filtered /\ ret.f = f /\ InLookup(f)) =>
               ret.out = FilterResult(co[f].entry, blacklist_chats[f], ret.arg)

\* resolve has accumulated the id of PeerUser(1) and waits for a lookup; a
\* whitelist filter call on the chat of that id still sees the list, in which
\* no int equals the id, and drops the event.
NoPartialScopeObservableWitness ==
    /\ Filtered
    /\ InLookup(ret.f)
    /\ GetPeerId(ret.arg) \in co[ret.f].result
    /\ ~blacklist_chats[ret.f]
    /\ ret.out = "None"
    /\ chats[ret.f] = ctor_chats[ret.f]

====
